---- MODULE Spec2Model ----
(***************************************************************************)
(* A model of dotapi's execution core (core/src/executor/runner.rs and     *)
(* schema.rs): the Runner, its schema import/merge, its dependency-ordered *)
(* call queue and its call_request life cycle.                             *)
(*                                                                         *)
(* Three specifications share the variables below:                         *)
(*   SpecQueue  generate_call_queue / traverse_request_stack on a schema   *)
(*   SpecLoad   Runner::new / recursively_import on a tree of files        *)
(*   Spec       call_request, step by step, on a constructed Runner        *)
(***************************************************************************)
EXTENDS Integers, Sequences, FiniteSets, TLC

VARIABLES
    files,          \* the YAML files on disk: path -> file (input of Runner::new)
    schema,         \* Runner.schema (runner.rs:20)
    environment,    \* Runner.environment (runner.rs:23)
    overrides,      \* Runner.overrides (runner.rs:29)
    script_engine,  \* Runner.script_engine (runner.rs:30)
    pc,             \* position of the current operation
    call,           \* the call_request in progress: its name, its steps so far, its outcome
    new_result,     \* what Runner::new returned (or how it ended)
    queue_result    \* what generate_call_queue or generate_sequence_queue returned

vars == <<files, schema, environment, overrides, script_engine, pc, call,
          new_result, queue_result>>

----------------------------------------------------------------------------
(* Option<T>: None is the empty sequence, Some(x) the sequence of x alone. *)
(* NoResult: no value yet, for the result variables.                       *)
None == <<>>
Some(x) == <<x>>
NoResult == [kind |-> "NoResult"]

(* Elements of a sequence.                                                 *)
Range(s) == {s[i] : i \in 1..Len(s)}

(* Sequences over S of length at most n.                                   *)
SeqsUpTo(S, n) == UNION {[1..k -> S] : k \in 0..n}

(* All orders in which a hash container may iterate over the set S.        *)
RECURSIVE Orders(_)
Orders(S) ==
    IF S = {} THEN {<<>>}
    ELSE UNION {{<<x>> \o o : o \in Orders(S \ {x})} : x \in S}

----------------------------------------------------------------------------
(* Schema model (schema.rs).                                               *)

(* RequestConfig: only depends_on is read by the core; delay, timeout and  *)
(* retries are carried but never consulted.                                *)
RequestConfig(depends_on) ==
    [depends_on |-> depends_on, delay |-> None, timeout |-> None, retries |-> 0]

(* A template string or value: literal text, or a reference to the        *)
(* variable named text.                                                    *)
Lit(text) == [ref |-> FALSE, text |-> text]
Ref(name) == [ref |-> TRUE, text |-> name]

(* EnvironmentVariable: a default and the per-environment overrides.       *)
EnvironmentVariable(default, env_overrides) ==
    [default |-> default, overrides |-> env_overrides]

(* Script: the language tag and the source text.                           *)
Script(language, content) == [language |-> language, content |-> content]

(* RequestScriptConfig: two Option<Script>.                                *)
RequestScriptConfig(pre_request, post_request) ==
    [pre_request |-> pre_request, post_request |-> post_request]

(* A Request; config, headers, query, body and script are Option.          *)
Request(method, url, doc, config, headers, query, body, script) ==
    [method |-> method, url |-> url, doc |-> doc, config |-> config,
     headers |-> headers, query |-> query, body |-> body, script |-> script]

(* A Schema.                                                               *)
Schema(filename, imports, env, requests, calls, project) ==
    [filename |-> filename, imports |-> imports, env |-> env,
     requests |-> requests, calls |-> calls, project |-> project]

EmptyMap == [k \in {} |-> None]

----------------------------------------------------------------------------
(* Dependency graph resolver (runner.rs:419-497).                          *)

(* Request names of the queue specification; a schema declares all of      *)
(* them or all but UndeclaredName.                                         *)
RequestNames == {"A", "B", "C", "D"}
UndeclaredName == "D"

(* Total number of depends_on entries in a generated schema.               *)
MaxDepEdges == 4

(* request.config's depends_on, empty when config is None (482-485).       *)
dependencies_of(request) ==
    IF request.config = None THEN <<>> ELSE request.config[1].depends_on

RECURSIVE traverse_request_stack(_, _, _, _)
RECURSIVE traverse_dependencies(_, _, _, _, _, _)

(* Mutant of the loop: the ancestor set is shared between sibling          *)
(* dependencies instead of being cloned per branch.                        *)
traverse_dependencies_shared_trace(requests, dependencies, i, dependency_trace, path, stack) ==
    IF i > Len(dependencies) THEN [kind |-> "Ok", stack |-> stack]
    ELSE LET inner == traverse_request_stack(requests, dependencies[i],
                          dependency_trace \cup Range(stack), path)
         IN  IF inner.kind # "Ok" THEN inner
             ELSE traverse_dependencies(requests, dependencies, i + 1,
                      dependency_trace, path, stack \o inner.stack)

(* The loop over the dependencies (490-494): each is traversed with a      *)
(* clone of the ancestor set, its result appended; the first error ends    *)
(* the traversal.                                                          *)
traverse_dependencies(requests, dependencies, i, dependency_trace, path, stack) ==
    IF i > Len(dependencies) THEN [kind |-> "Ok", stack |-> stack]
    ELSE LET inner == traverse_request_stack(requests, dependencies[i],
                          dependency_trace, path)
         IN  IF inner.kind # "Ok" THEN inner
             ELSE traverse_dependencies(requests, dependencies, i + 1,
                      dependency_trace, path, stack \o inner.stack)

(* Mutant: a name that is not declared is skipped.                         *)
traverse_request_stack_skipping_undeclared(requests, name, dependency_trace, path) ==
    IF name \in dependency_trace
    THEN [kind |-> "CircularDependency", name |-> name,
          dependency_trace |-> dependency_trace, path |-> path]
    ELSE IF name \notin DOMAIN requests
    THEN [kind |-> "Ok", stack |-> <<>>]
    ELSE traverse_dependencies(requests, dependencies_of(requests[name]), 1,
             dependency_trace \cup {name}, Append(path, name), <<name>>)

(* traverse_request_stack (448-497). dependency_trace is the HashSet of    *)
(* ancestors; path records the order in which its names were inserted,     *)
(* which the HashSet itself does not keep.                                 *)
traverse_request_stack(requests, name, dependency_trace, path) ==
    IF name \in dependency_trace
    THEN [kind |-> "CircularDependency", name |-> name,
          dependency_trace |-> dependency_trace, path |-> path]
    ELSE IF name \notin DOMAIN requests
    THEN [kind |-> "RequestNotFound", name |-> name]
    ELSE traverse_dependencies(requests, dependencies_of(requests[name]), 1,
             dependency_trace \cup {name}, Append(path, name), <<name>>)

(* The names the error message lists (457-461): the HashSet's elements in  *)
(* its iteration order, then the offending name.                           *)
trace_info(result) ==
    IF result.kind = "CircularDependency"
    THEN {o \o <<result.name>> : o \in Orders(result.dependency_trace)}
    ELSE {<<>>}

(* The filter of generate_call_queue (421-432): keep an element unless it  *)
(* was seen before.                                                        *)
RECURSIVE dedup(_, _)
dedup(s, seen) ==
    IF s = <<>> THEN <<>>
    ELSE IF Head(s) \in Range(seen) THEN dedup(Tail(s), seen)
    ELSE <<Head(s)>> \o dedup(Tail(s), Append(seen, Head(s)))

(* Mutant: the traversal is not reversed.                                  *)
rev_omitted(s) == s

(* .rev() (424).                                                           *)
rev(s) == [i \in 1..Len(s) |-> s[Len(s) + 1 - i]]

(* Mutant: deduplicate the raw traversal first, reverse afterwards.        *)
generate_call_queue_dedup_first(requests, name) ==
    LET dirty_stack == traverse_request_stack(requests, name, {}, <<>>)
    IN  IF dirty_stack.kind # "Ok" THEN dirty_stack
        ELSE [kind |-> "Ok", queue |-> rev(dedup(dirty_stack.stack, <<>>))]

(* generate_call_queue (419-434).                                          *)
generate_call_queue(requests, name) ==
    LET dirty_stack == traverse_request_stack(requests, name, {}, <<>>)
    IN  IF dirty_stack.kind # "Ok" THEN dirty_stack
        ELSE [kind |-> "Ok", queue |-> dedup(rev(dirty_stack.stack), <<>>)]

(* The loop of the collect over the sequence's members (442-445): one      *)
(* generate_call_queue per member, the first error ending it.              *)
RECURSIVE sequence_queues(_, _, _, _)

(* Mutant: a request already queued for an earlier member is dropped from  *)
(* the queues of the later ones.                                           *)
sequence_queues_dedup_across(requests, sequence, i, queues) ==
    IF i > Len(sequence) THEN [kind |-> "Ok", queues |-> queues]
    ELSE LET q == generate_call_queue(requests, sequence[i])
             earlier == UNION {Range(queues[j]) : j \in 1..Len(queues)}
         IN  IF q.kind # "Ok" THEN q
             ELSE sequence_queues(requests, sequence, i + 1,
                      Append(queues, SelectSeq(q.queue, LAMBDA n : n \notin earlier)))

sequence_queues(requests, sequence, i, queues) ==
    IF i > Len(sequence) THEN [kind |-> "Ok", queues |-> queues]
    ELSE LET q == generate_call_queue(requests, sequence[i])
         IN  IF q.kind # "Ok" THEN q
             ELSE sequence_queues(requests, sequence, i + 1, Append(queues, q.queue))

(* generate_sequence_queue (436-446).                                      *)
generate_sequence_queue(runner_schema, name) ==
    IF name \notin DOMAIN runner_schema.calls
    THEN [kind |-> "SequenceNotFound", name |-> name]
    ELSE sequence_queues(runner_schema.requests, runner_schema.calls[name], 1, <<>>)

(* The call sequences of the queue specification; "undeclared" is not a    *)
(* key of calls.                                                           *)
SequenceCatalogue == ("ab" :> <<"A", "B">>) @@ ("cdc" :> <<"C", "D", "C">>)
SequenceNames == {"ab", "cdc", "undeclared"}

(* The request maps of the queue specification: each declared request has *)
(* a depends_on list over RequestNames (no config when the list is empty), *)
(* the lists holding at most MaxDepEdges entries in total.                 *)
RequestWith(depends_on) ==
    Request("GET", Lit("http://h/"), "",
            IF depends_on = <<>> THEN None ELSE Some(RequestConfig(depends_on)),
            None, None, None, None)

(* The schema declaring the names of `declared`, with the given depends_on *)
(* list for each of the four names.                                        *)
QueueSchema(declared, a, b, c, d) ==
    LET depends_on == [A |-> a, B |-> b, C |-> c, D |-> d]
    IN  Schema("root", <<>>, EmptyMap,
               [n \in declared |-> RequestWith(depends_on[n])],
               SequenceCatalogue, None)

InitQueue ==
    /\ files = EmptyMap
    /\ \E declared \in {RequestNames, RequestNames \ {UndeclaredName}} :
       \E a \in SeqsUpTo(RequestNames, MaxDepEdges) :
       \E b \in SeqsUpTo(RequestNames, MaxDepEdges - Len(a)) :
       \E c \in SeqsUpTo(RequestNames, MaxDepEdges - Len(a) - Len(b)) :
       \E d \in IF UndeclaredName \in declared
                THEN SeqsUpTo(RequestNames, MaxDepEdges - Len(a) - Len(b) - Len(c))
                ELSE {<<>>} :
           schema = QueueSchema(declared, a, b, c, d)
    /\ environment = None
    /\ overrides = EmptyMap
    /\ script_engine = "None"
    /\ pc = "ready"
    /\ call = NoResult
    /\ new_result = NoResult
    /\ queue_result = NoResult

(* runner.generate_call_queue(name): the function is pure, the schema is   *)
(* only read. Once per behaviour in the queue specification ("ready"),     *)
(* between any two calls in the call specification ("idle").               *)
GenerateCallQueue(name) ==
    LET result == generate_call_queue(schema.requests, name)
    IN  /\ pc \in {"ready", "idle"}
        /\ pc' = IF pc = "ready" THEN "returned" ELSE pc
        /\ \E info \in trace_info(result) :
              queue_result' = [op |-> "generate_call_queue", name |-> name,
                               result |-> result, trace_info |-> info]
        /\ UNCHANGED <<files, schema, environment, overrides, script_engine,
                       call, new_result>>

(* runner.generate_sequence_queue(name), likewise.                          *)
GenerateSequenceQueue(name) ==
    /\ pc \in {"ready", "idle"}
    /\ pc' = IF pc = "ready" THEN "returned" ELSE pc
    /\ queue_result' = [op |-> "generate_sequence_queue", name |-> name,
                        result |-> generate_sequence_queue(schema, name)]
    /\ UNCHANGED <<files, schema, environment, overrides, script_engine,
                   call, new_result>>

NextQueue ==
    \/ \E name \in RequestNames : GenerateCallQueue(name)
    \/ \E name \in SequenceNames : GenerateSequenceQueue(name)

SpecQueue == InitQueue /\ [][NextQueue]_vars

----------------------------------------------------------------------------
(* Collaborators outside core/src/executor: the interpolation functions    *)
(* of utils and the Rhai engine, by their contracts.                       *)

Result(kind, error) == [kind |-> kind, error |-> error]

(* interpolate_string in strict mode: a reference to a name absent from    *)
(* env is an error; a reference to a present name is replaced by its       *)
(* resolved value.                                                         *)
interpolate_string(template, env) ==
    IF ~template.ref THEN Result("Ok", "") @@ [value |-> template.text]
    ELSE IF template.text \in DOMAIN env
    THEN Result("Ok", "") @@ [value |-> env[template.text]]
    ELSE Result("Err", "InterpolationError") @@ [value |-> ""]

(* interpolate_value on a string leaf.                                     *)
interpolate_value(value, env) == interpolate_string(value, env)

(* The keys and values a script may write into the overrides map.          *)
OverrideKeys == {"host", "extra"}
OverrideValue == "http://o/"
OverrideMaps == UNION {[K -> {OverrideValue}] : K \in SUBSET OverrideKeys}

(* RhaiScripting::run(script, &mut overrides): the script succeeds or      *)
(* fails, and may have rewritten the map either way.                       *)
engine_run(content, runner_overrides) ==
    {Result(k[1], k[2]) @@ [overrides |-> o] :
        k \in {<<"Ok", "">>, <<"Err", "ScriptExecutionError">>},
        o \in OverrideMaps}

----------------------------------------------------------------------------
(* Environment resolver and request builder (runner.rs:169-200, 276-417).  *)

(* What the foreign parsers accept, on the texts used here.                *)
ValidUrls == {"http://h/", "http://s/", "http://o/"}
InvalidMethods == {"", "NOT A METHOD"}
InvalidHeaderValues == {"line\nbreak"}
ValidMimeTypes == {"text/plain"}
ReadableFiles == {"upload.bin"}

(* Mutant: the selected environment is ignored, the default always used.   *)
resolved_value_default_only(config, env_name) == config.default

(* The value build_env picks for a variable (174-185).                     *)
resolved_value(config, env_name) ==
    IF env_name # None /\ env_name[1] \in DOMAIN config.overrides
    THEN config.overrides[env_name[1]]
    ELSE config.default

(* The loop of build_env (172-196) over schema.env in the HashMap's        *)
(* iteration order `order`: each value is interpolated against the part    *)
(* of the map built so far and unwrapped, which panics on an error.        *)
RECURSIVE build_env_from(_, _, _, _, _)
build_env_from(env_config, env_name, order, i, env_vars) ==
    IF i > Len(order) THEN Result("Ok", "") @@ [env |-> env_vars]
    ELSE LET key == order[i]
             value == interpolate_value(resolved_value(env_config[key], env_name),
                                        env_vars)
         IN  IF value.kind # "Ok"
             THEN Result("Panic", value.error) @@ [env |-> env_vars]
             ELSE build_env_from(env_config, env_name, order, i + 1,
                                 (key :> value.value) @@ env_vars)

(* build_env (169-200): Runner.overrides is not read (198).                *)
build_env(runner_schema, env_name, order) ==
    build_env_from(runner_schema.env, env_name, order, 1, EmptyMap)

(* Whether every template of a map interpolates.                           *)
all_interpolate(templates, env) ==
    \A k \in DOMAIN templates : interpolate_string(templates[k], env).kind = "Ok"

Built(kind, error, reads) == Result(kind, error) @@ [reads |-> reads]

(* The parts of a multipart body, in declared order (362-407); reads       *)
(* lists the files read so far.                                            *)
RECURSIVE build_parts(_, _, _, _)
build_parts(parts, i, env, reads) ==
    IF i > Len(parts) THEN Built("Ok", "", reads)
    ELSE LET part == parts[i]
         IN  IF part.kind = "field"
             THEN IF interpolate_string(part.value, env).kind # "Ok"
                  THEN Built("Err", "InterpolationError", reads)
                  ELSE build_parts(parts, i + 1, env, reads)
             ELSE LET path == interpolate_string(part.path, env)
                  IN  IF path.kind # "Ok"
                      THEN Built("Err", "InterpolationError", reads)
                      ELSE IF path.value \notin ReadableFiles
                      THEN Built("Err", "FileReadError", Append(reads, path.value))
                      ELSE IF part.mime_type = None
                      THEN build_parts(parts, i + 1, env, Append(reads, path.value))
                      ELSE LET mime == interpolate_string(part.mime_type[1], env)
                           IN  IF mime.kind # "Ok"
                               THEN Built("Err", "InterpolationError",
                                          Append(reads, path.value))
                               ELSE IF mime.value \notin ValidMimeTypes
                               THEN Built("Err", "InvalidMimeType",
                                          Append(reads, path.value))
                               ELSE build_parts(parts, i + 1, env,
                                                Append(reads, path.value))

(* The body of a request (321-411).                                        *)
build_body(body, env) ==
    IF body = None THEN Built("Ok", "", <<>>)
    ELSE LET b == body[1]
         IN  CASE b.type = "json" ->
                    IF interpolate_value(b.content, env).kind = "Ok"
                    THEN Built("Ok", "", <<>>)
                    ELSE Built("Err", "InterpolationError", <<>>)
               [] b.type = "graphql" ->
                    IF /\ interpolate_string(b.query, env).kind = "Ok"
                       /\ \/ b.variables = None
                          \/ interpolate_value(b.variables[1], env).kind = "Ok"
                    THEN Built("Ok", "", <<>>)
                    ELSE Built("Err", "InterpolationError", <<>>)
               [] b.type \in {"xml", "text", "form-urlencoded"} ->
                    IF interpolate_string(b.content, env).kind = "Ok"
                    THEN Built("Ok", "", <<>>)
                    ELSE Built("Err", "InterpolationError", <<>>)
               [] b.type = "multipart" -> build_parts(b.parts, 1, env, <<>>)

(* A failure of build_request at the named step.                           *)
Failed(step, error, reads) == Built("Err", error, reads) @@ [step |-> step]

(* Mutant: the method is parsed before the url is interpolated and parsed. *)
build_with_env_method_first(request_schema, env) ==
    LET url == interpolate_string(request_schema.url, env)
    IN  IF request_schema.method \in InvalidMethods
        THEN Failed("method", "InvalidMethod", <<>>)
        ELSE IF url.kind # "Ok" THEN Failed("url_interpolation", "InterpolationError", <<>>)
        ELSE IF url.value \notin ValidUrls THEN Failed("url_parse", "MalformedURL", <<>>)
        ELSE IF /\ request_schema.headers # None
                /\ ~all_interpolate(request_schema.headers[1], env)
        THEN Failed("headers", "InterpolationError", <<>>)
        ELSE IF /\ request_schema.query # None
                /\ ~all_interpolate(request_schema.query[1], env)
        THEN Failed("query", "InterpolationError", <<>>)
        ELSE LET body == build_body(request_schema.body, env)
             IN  IF body.kind # "Ok" THEN body @@ [step |-> "body"]
                 ELSE IF /\ request_schema.headers # None
                         /\ \E k \in DOMAIN request_schema.headers[1] :
                               interpolate_string(request_schema.headers[1][k], env).value
                                   \in InvalidHeaderValues
                 THEN Failed("assembly", "RequestAssemblyError", body.reads)
                 ELSE body @@ [step |-> "done"]

(* The steps of build_request after build_env (285-416), each returning    *)
(* the first error: url interpolation, url parse, method parse, headers,   *)
(* query, body, and the final build(), where a header the builder could    *)
(* not accept surfaces.                                                    *)
build_with_env(request_schema, env) ==
    LET url == interpolate_string(request_schema.url, env)
    IN  IF url.kind # "Ok" THEN Failed("url_interpolation", "InterpolationError", <<>>)
        ELSE IF url.value \notin ValidUrls THEN Failed("url_parse", "MalformedURL", <<>>)
        ELSE IF request_schema.method \in InvalidMethods
        THEN Failed("method", "InvalidMethod", <<>>)
        ELSE IF /\ request_schema.headers # None
                /\ ~all_interpolate(request_schema.headers[1], env)
        THEN Failed("headers", "InterpolationError", <<>>)
        ELSE IF /\ request_schema.query # None
                /\ ~all_interpolate(request_schema.query[1], env)
        THEN Failed("query", "InterpolationError", <<>>)
        ELSE LET body == build_body(request_schema.body, env)
             IN  IF body.kind # "Ok" THEN body @@ [step |-> "body"]
                 ELSE IF /\ request_schema.headers # None
                         /\ \E k \in DOMAIN request_schema.headers[1] :
                               interpolate_string(request_schema.headers[1][k], env).value
                                   \in InvalidHeaderValues
                 THEN Failed("assembly", "RequestAssemblyError", body.reads)
                 ELSE body @@ [step |-> "done"]

(* build_request (276-417): the environment is resolved anew (283), then   *)
(* the request is assembled.                                               *)
build_request(runner_schema, env_name, request_schema, order) ==
    LET env == build_env(runner_schema, env_name, order)
    IN  IF env.kind # "Ok"
        THEN [kind |-> env.kind, env |-> None] @@ Failed("build_env", env.error, <<>>)
        ELSE build_with_env(request_schema, env.env) @@ [env |-> Some(env.env)]

----------------------------------------------------------------------------
(* Runner orchestration (runner.rs:220-273, 508-520).                      *)

(* run_rhai_script (508-520).                                              *)
run_rhai_script(content, engine, runner_overrides) ==
    IF engine # "Rhai"
    THEN {Result("Err", "RhaiEngineNotAvailable") @@ [overrides |-> runner_overrides]}
    ELSE engine_run(content, runner_overrides)

(* Mutant: javascript and lua scripts are handed to the Rhai engine.       *)
run_request_script_all_rhai(script, engine, runner_overrides) ==
    run_rhai_script(script.content, engine, runner_overrides)

(* run_request_script (263-273): the possible outcomes of dispatching a    *)
(* hook. Javascript and Lua are unimplemented!(): a panic.                 *)
run_request_script(script, engine, runner_overrides) ==
    IF script.language = "rhai"
    THEN run_rhai_script(script.content, engine, runner_overrides)
    ELSE {Result("Panic", "unimplemented") @@ [overrides |-> runner_overrides]}

(* The schemas of the call specification. Request "r" takes every          *)
(* combination of hooks, url and method; request "login" has a Rhai        *)
(* pre-request hook and a config with delay, timeout and retries; name     *)
(* "missing" is not declared.                                              *)
Hooks == {None} \cup {Some(Script(l, "script")) : l \in {"rhai", "javascript", "lua"}}
Urls == {Lit("http://h/"), Lit("not a url"), Ref("host"), Ref("nowhere")}
Methods == {"GET", "NOT A METHOD"}
CallNames == {"r", "login", "missing"}

HostVariable ==
    EnvironmentVariable(Lit("http://h/"), "staging" :> Lit("http://s/"))

EnvConfigs ==
    {"host" :> HostVariable,
     ("host" :> HostVariable) @@ ("link" :> EnvironmentVariable(Ref("host"), EmptyMap)),
     ("host" :> HostVariable) @@ ("broken" :> EnvironmentVariable(Ref("nowhere"), EmptyMap))}

RequestOf(method, url, pre_request, post_request) ==
    Request(method, url, "", None, None, None, None,
            IF pre_request = None /\ post_request = None THEN None
            ELSE Some(RequestScriptConfig(pre_request, post_request)))

(* A RequestConfig that asks for a delay, a timeout and retries.           *)
TimedConfig ==
    [depends_on |-> <<>>, delay |-> Some("1s"), timeout |-> Some("30s"),
     retries |-> 3]

(* The call sequence of the call specification.                            *)
CallSequences == "all" :> <<"login", "r">>

CallSchema(env, request) ==
    Schema("root", <<>>, env,
           ("r" :> request)
               @@ ("login" :> Request("GET", Lit("http://h/"), "", Some(TimedConfig),
                                      None, None, None,
                                      Some(RequestScriptConfig(
                                               Some(Script("rhai", "script")), None)))),
           CallSequences, None)

Init ==
    /\ files = EmptyMap
    /\ \E env \in EnvConfigs, method \in Methods, url \in Urls,
          pre_request \in Hooks, post_request \in Hooks :
           schema = CallSchema(env, RequestOf(method, url, pre_request, post_request))
    /\ environment \in {None, Some("staging")}
    /\ overrides = EmptyMap
    /\ script_engine \in {"Rhai", "None"}
    /\ pc = "idle"
    /\ call = NoResult
    /\ new_result = NoResult
    /\ queue_result = NoResult

(* A step of the call in progress: which step ran, whether it succeeded,   *)
(* and the overrides map after it.                                         *)
Step(step, ok, after) == [step |-> step, ok |-> ok, overrides |-> after]

(* The hook of the given kind the request declares (236-237, 254-255).     *)
hook_of(request, kind) ==
    IF request.script = None THEN None ELSE request.script[1][kind]

(* Where a call goes after a step that ended `kind`: on, back to the       *)
(* caller with the Err (the ? operator), or nowhere after a panic.         *)
after_step(kind, next) ==
    CASE kind = "Ok" -> next
      [] kind = "Err" -> "idle"
      [] kind = "Panic" -> "panicked"

(* Mutant: overrides is cleared at the start of every call.                *)
CallRequestClearingOverrides(name) ==
    /\ pc = "idle"
    /\ overrides' = EmptyMap
    /\ IF name \notin DOMAIN schema.requests
       THEN /\ call' = [name |-> name,
                        steps |-> <<Step("lookup", FALSE, overrides)>>,
                        transport_calls |-> 0, env |-> None, reads |-> <<>>,
                        built |-> NoResult,
                        outcome |-> Result("Err", "RequestNotFound")]
            /\ pc' = "idle"
       ELSE /\ call' = [name |-> name,
                        steps |-> <<Step("lookup", TRUE, overrides)>>,
                        transport_calls |-> 0, env |-> None, reads |-> <<>>,
                        built |-> NoResult,
                        outcome |-> Result("Running", "")]
            /\ pc' = IF hook_of(schema.requests[name], "pre_request") # None
                     THEN "pre_request" ELSE "build"
    /\ UNCHANGED <<files, schema, environment, script_engine,
                   new_result, queue_result>>

(* call_request up to the pre-request hook (220-237): look the request up. *)
CallRequest(name) ==
    /\ pc = "idle"
    /\ IF name \notin DOMAIN schema.requests
       THEN /\ call' = [name |-> name,
                        steps |-> <<Step("lookup", FALSE, overrides)>>,
                        transport_calls |-> 0, env |-> None, reads |-> <<>>,
                        built |-> NoResult,
                        outcome |-> Result("Err", "RequestNotFound")]
            /\ pc' = "idle"
       ELSE /\ call' = [name |-> name,
                        steps |-> <<Step("lookup", TRUE, overrides)>>,
                        transport_calls |-> 0, env |-> None, reads |-> <<>>,
                        built |-> NoResult,
                        outcome |-> Result("Running", "")]
            /\ pc' = IF hook_of(schema.requests[name], "pre_request") # None
                     THEN "pre_request" ELSE "build"
    /\ UNCHANGED <<files, schema, environment, overrides, script_engine,
                   new_result, queue_result>>

(* Mutant: the Result of the pre-request hook is dropped instead of        *)
(* propagated with ?.                                                      *)
RunPreRequestIgnoringErr ==
    /\ pc = "pre_request"
    /\ \E out \in run_request_script(
                     hook_of(schema.requests[call.name], "pre_request")[1],
                     script_engine, overrides) :
          /\ overrides' = out.overrides
          /\ call' = [call EXCEPT
                          !.steps = Append(@, Step("pre_request", out.kind = "Ok",
                                                   out.overrides)),
                          !.outcome = IF out.kind = "Panic"
                                      THEN Result(out.kind, out.error) ELSE @]
          /\ pc' = IF out.kind = "Panic" THEN "panicked" ELSE "build"
    /\ UNCHANGED <<files, schema, environment, script_engine, new_result,
                   queue_result>>

(* The pre-request hook (235-240).                                         *)
RunPreRequest ==
    /\ pc = "pre_request"
    /\ \E out \in run_request_script(
                     hook_of(schema.requests[call.name], "pre_request")[1],
                     script_engine, overrides) :
          /\ overrides' = out.overrides
          /\ call' = [call EXCEPT
                          !.steps = Append(@, Step("pre_request", out.kind = "Ok",
                                                   out.overrides)),
                          !.outcome = IF out.kind = "Ok"
                                      THEN @ ELSE Result(out.kind, out.error)]
          /\ pc' = after_step(out.kind, "build")
    /\ UNCHANGED <<files, schema, environment, script_engine, new_result,
                   queue_result>>

(* Mutant: the build stores the environment it resolved into overrides.    *)
BuildRequestStoringEnv ==
    /\ pc = "build"
    /\ \E order \in Orders(DOMAIN schema.env) :
          LET built == build_request(schema, environment,
                                     schema.requests[call.name], order)
          IN  /\ overrides' = IF built.env = None THEN overrides ELSE built.env[1]
              /\ call' = [call EXCEPT
                              !.steps = Append(@, Step("build", built.kind = "Ok",
                                                       overrides')),
                              !.env = built.env,
                              !.reads = built.reads,
                              !.built = built,
                              !.outcome = IF built.kind = "Ok"
                                          THEN @ ELSE Result(built.kind, built.error)]
              /\ pc' = after_step(built.kind, "execute")
    /\ UNCHANGED <<files, schema, environment, script_engine, new_result,
                   queue_result>>

(* Mutant: a failed build restores overrides to what it was when the call  *)
(* started.                                                                *)
BuildRequestRollingBack ==
    /\ pc = "build"
    /\ \E order \in Orders(DOMAIN schema.env) :
          LET built == build_request(schema, environment,
                                     schema.requests[call.name], order)
          IN  /\ overrides' = IF built.kind = "Ok" THEN overrides
                              ELSE call.steps[1].overrides
              /\ call' = [call EXCEPT
                              !.steps = Append(@, Step("build", built.kind = "Ok",
                                                       overrides')),
                              !.env = built.env,
                              !.reads = built.reads,
                              !.built = built,
                              !.outcome = IF built.kind = "Ok"
                                          THEN @ ELSE Result(built.kind, built.error)]
              /\ pc' = after_step(built.kind, "execute")
    /\ UNCHANGED <<files, schema, environment, script_engine, new_result,
                   queue_result>>

(* build_request (242-243).                                                *)
BuildRequest ==
    /\ pc = "build"
    /\ \E order \in Orders(DOMAIN schema.env) :
          LET built == build_request(schema, environment,
                                     schema.requests[call.name], order)
          IN  /\ call' = [call EXCEPT
                              !.steps = Append(@, Step("build", built.kind = "Ok",
                                                       overrides)),
                              !.env = built.env,
                              !.reads = built.reads,
                              !.built = built,
                              !.outcome = IF built.kind = "Ok"
                                          THEN @ ELSE Result(built.kind, built.error)]
              /\ pc' = after_step(built.kind, "execute")
    /\ UNCHANGED <<files, schema, environment, overrides, script_engine,
                   new_result, queue_result>>

(* Mutant: a failed transport call is repeated while the request's         *)
(* retries allow.                                                          *)
ExecuteRetrying ==
    /\ pc = "execute"
    /\ \E kind \in {"Ok", "Err"} :
          LET request == schema.requests[call.name]
              post == hook_of(request, "post_request")
              retry == /\ kind = "Err"
                       /\ request.config # None
                       /\ call.transport_calls < request.config[1].retries
          IN  /\ call' = [call EXCEPT
                              !.steps = Append(@, Step("execute", kind = "Ok",
                                                       overrides)),
                              !.transport_calls = @ + 1,
                              !.outcome = IF retry THEN @
                                          ELSE IF kind = "Err"
                                          THEN Result("Err", "TransportError")
                                          ELSE IF post = None
                                          THEN Result("Ok", "") ELSE @]
              /\ pc' = IF retry THEN "execute"
                       ELSE after_step(kind, IF post = None THEN "idle"
                                             ELSE "post_request")
    /\ UNCHANGED <<files, schema, environment, overrides, script_engine,
                   new_result, queue_result>>

(* client.execute (245-251); without a post-request hook the response is   *)
(* returned (260).                                                         *)
Execute ==
    /\ pc = "execute"
    /\ \E kind \in {"Ok", "Err"} :
          LET post == hook_of(schema.requests[call.name], "post_request")
          IN  /\ call' = [call EXCEPT
                              !.steps = Append(@, Step("execute", kind = "Ok",
                                                       overrides)),
                              !.transport_calls = @ + 1,
                              !.outcome = IF kind = "Err"
                                          THEN Result("Err", "TransportError")
                                          ELSE IF post = None
                                          THEN Result("Ok", "") ELSE @]
              /\ pc' = after_step(kind, IF post = None THEN "idle" ELSE "post_request")
    /\ UNCHANGED <<files, schema, environment, overrides, script_engine,
                   new_result, queue_result>>

(* Mutant: the Result of the post-request hook is dropped and the response *)
(* returned.                                                               *)
RunPostRequestIgnoringErr ==
    /\ pc = "post_request"
    /\ \E out \in run_request_script(
                     hook_of(schema.requests[call.name], "post_request")[1],
                     script_engine, overrides) :
          /\ overrides' = out.overrides
          /\ call' = [call EXCEPT
                          !.steps = Append(@, Step("post_request", out.kind = "Ok",
                                                   out.overrides)),
                          !.outcome = IF out.kind = "Panic"
                                      THEN Result(out.kind, out.error)
                                      ELSE Result("Ok", "")]
          /\ pc' = IF out.kind = "Panic" THEN "panicked" ELSE "idle"
    /\ UNCHANGED <<files, schema, environment, script_engine, new_result,
                   queue_result>>

(* The post-request hook, then the response is returned (253-260).         *)
RunPostRequest ==
    /\ pc = "post_request"
    /\ \E out \in run_request_script(
                     hook_of(schema.requests[call.name], "post_request")[1],
                     script_engine, overrides) :
          /\ overrides' = out.overrides
          /\ call' = [call EXCEPT
                          !.steps = Append(@, Step("post_request", out.kind = "Ok",
                                                   out.overrides)),
                          !.outcome = Result(out.kind, out.error)]
          /\ pc' = after_step(out.kind, "idle")
    /\ UNCHANGED <<files, schema, environment, script_engine, new_result,
                   queue_result>>

Next ==
    \/ \E name \in CallNames : CallRequest(name)
    \/ RunPreRequest
    \/ BuildRequest
    \/ Execute
    \/ RunPostRequest
    \/ \E name \in CallNames : GenerateCallQueue(name)
    \/ \E name \in {"all", "undeclared"} : GenerateSequenceQueue(name)

Spec == Init /\ [][Next]_vars

----------------------------------------------------------------------------
(* The build specification: build_request on requests with headers, query  *)
(* and bodies, from the state of a call that has passed its lookup.        *)

(* Number of parts of a multipart body.                                    *)
MaxParts == 2

Field(name, value) == [kind |-> "field", name |-> name, value |-> value]
File(name, path, mime_type) ==
    [kind |-> "file", name |-> name, path |-> path, mime_type |-> mime_type]

(* The parts: fields and files that interpolate or not, files that can be  *)
(* read or not, with a valid, an invalid or no MIME type.                  *)
Parts ==
    {Field("f", Lit("v")), Field("f", Ref("nowhere")),
     File("u", Lit("upload.bin"), None),
     File("u", Lit("absent.bin"), None),
     File("u", Ref("nowhere"), None),
     File("u", Lit("upload.bin"), Some(Lit("text/plain"))),
     File("u", Lit("upload.bin"), Some(Ref("nowhere"))),
     File("u", Lit("upload.bin"), Some(Lit("not a mime")))}

Templates == {Lit("v"), Ref("nowhere")}

(* RequestBody (schema.rs:114-142).                                        *)
Bodies ==
    {None}
        \cup {Some([type |-> "json", content |-> c]) : c \in Templates}
        \cup {Some([type |-> "graphql", query |-> q, variables |-> v]) :
                  q \in Templates, v \in {None} \cup {Some(t) : t \in Templates}}
        \cup {Some([type |-> t, content |-> c]) :
                  t \in {"xml", "text", "form-urlencoded"}, c \in Templates}
        \cup {Some([type |-> "multipart", parts |-> parts]) :
                  parts \in SeqsUpTo(Parts, MaxParts)}

HeaderMaps ==
    {None} \cup {Some("h" :> t) : t \in Templates \cup {Lit("line\nbreak")}}

QueryMaps == {None} \cup {Some("q" :> t) : t \in Templates}

InitBuild ==
    /\ files = EmptyMap
    /\ \E env \in EnvConfigs, method \in Methods, url \in Urls,
          headers \in HeaderMaps, query \in QueryMaps, body \in Bodies :
           schema = CallSchema(env, Request(method, url, "", None, headers, query,
                                            body, None))
    /\ environment = None
    /\ overrides = EmptyMap
    /\ script_engine = "Rhai"
    /\ pc = "build"
    /\ call = [name |-> "r", steps |-> <<Step("lookup", TRUE, overrides)>>,
               transport_calls |-> 0, env |-> None, reads |-> <<>>,
               built |-> NoResult, outcome |-> Result("Running", "")]
    /\ new_result = NoResult
    /\ queue_result = NoResult

NextBuild == BuildRequest

SpecBuild == InitBuild /\ [][NextBuild]_vars

----------------------------------------------------------------------------
(* The dependency relation of a schema, stated independently of the        *)
(* traversal: what the claims about the call queue refer to.               *)

DirectDeps(requests, n) ==
    IF n \in DOMAIN requests THEN Range(dependencies_of(requests[n])) ELSE {}

RECURSIVE Closure(_, _)
Closure(requests, S) ==
    LET T == S \cup UNION {DirectDeps(requests, x) : x \in S}
    IN  IF T = S THEN S ELSE Closure(requests, T)

(* The names reachable from n, n included.                                 *)
Reachable(requests, n) == Closure(requests, {n})

(* The names n depends on, directly or transitively.                       *)
TransitiveDeps(requests, n) == Closure(requests, DirectDeps(requests, n))

OnCycle(requests, n) == n \in TransitiveDeps(requests, n)

Position(q, x) == CHOOSE i \in 1..Len(q) : q[i] = x

QueueReturned ==
    queue_result # NoResult /\ queue_result.op = "generate_call_queue"

(* C1: when every request reachable from the root is declared and none     *)
(* lies on a cycle, generate_call_queue returns a queue holding exactly    *)
(* the reachable requests, each once, every request after all the          *)
(* requests it depends on directly or transitively.                        *)
C1_QueueIsDependencyOrder ==
    QueueReturned =>
        LET requests == schema.requests
            R == Reachable(requests, queue_result.name)
            result == queue_result.result
        IN  (R \subseteq DOMAIN requests /\ \A x \in R : ~OnCycle(requests, x)) =>
                /\ result.kind = "Ok"
                /\ Range(result.queue) = R
                /\ Len(result.queue) = Cardinality(R)
                /\ \A x \in R : \A d \in TransitiveDeps(requests, x) :
                       Position(result.queue, d) < Position(result.queue, x)

(* C1 witness: the diamond A -> [B, C], B -> [D], C -> [D] queued from A.   *)
C1_Witness ==
    /\ QueueReturned
    /\ queue_result.name = "A"
    /\ DOMAIN schema.requests = RequestNames
    /\ dependencies_of(schema.requests["A"]) = <<"B", "C">>
    /\ dependencies_of(schema.requests["B"]) = <<"D">>
    /\ dependencies_of(schema.requests["C"]) = <<"D">>
    /\ dependencies_of(schema.requests["D"]) = <<>>
    /\ queue_result.result = [kind |-> "Ok", queue |-> <<"D", "C", "B", "A">>]

(* C4 as claimed: generate_call_queue fails with CircularDependency        *)
(* exactly when some request reachable from the root lies on a cycle.      *)
C4_CircularIffCycle ==
    QueueReturned =>
        LET requests == schema.requests
            R == Reachable(requests, queue_result.name)
        IN  queue_result.result.kind = "CircularDependency"
                <=> \E x \in R : OnCycle(requests, x)

(* C4 as amended: when every name reachable from the root is declared,     *)
(* generate_call_queue fails with CircularDependency exactly when some     *)
(* reachable request lies on a cycle; a diamond never fails.               *)
C4_CircularIffCycleAmongDeclared ==
    QueueReturned =>
        LET requests == schema.requests
            R == Reachable(requests, queue_result.name)
        IN  R \subseteq DOMAIN requests =>
                (queue_result.result.kind = "CircularDependency"
                    <=> \E x \in R : OnCycle(requests, x))

(* C4 witness: the cycle A -> [B], B -> [A] is detected, in a schema that  *)
(* also holds a diamond-free declared request C.                           *)
C4_Witness ==
    /\ QueueReturned
    /\ queue_result.name = "A"
    /\ Reachable(schema.requests, "A") = {"A", "B"}
    /\ dependencies_of(schema.requests["A"]) = <<"B">>
    /\ dependencies_of(schema.requests["B"]) = <<"A">>
    /\ queue_result.result.kind = "CircularDependency"
    /\ queue_result.result.name = "A"

(* C5 as claimed: the CircularDependency error lists the ancestor path in  *)
(* the order visited, root first, then the offending name.                 *)
C5_TraceInVisitOrder ==
    (QueueReturned /\ queue_result.result.kind = "CircularDependency") =>
        queue_result.trace_info =
            queue_result.result.path \o <<queue_result.result.name>>

(* The depth-first pre-order trace from name: the name, then the full      *)
(* trace of each depends_on entry in declared order.                       *)
RECURSIVE PreOrder(_, _)
RECURSIVE PreOrderEach(_, _)
PreOrderEach(requests, names) ==
    IF names = <<>> THEN <<>>
    ELSE PreOrder(requests, Head(names)) \o PreOrderEach(requests, Tail(names))

PreOrder(requests, name) ==
    <<name>> \o PreOrderEach(requests, dependencies_of(requests[name]))

Reversed(s) == [i \in 1..Len(s) |-> s[Len(s) + 1 - i]]

(* s with every element removed except at its first occurrence.            *)
RECURSIVE FirstOccurrences(_)
FirstOccurrences(s) ==
    IF s = <<>> THEN <<>>
    ELSE LET front == SubSeq(s, 1, Len(s) - 1)
             last == s[Len(s)]
         IN  IF last \in Range(front) THEN FirstOccurrences(front)
             ELSE Append(FirstOccurrences(front), last)

(* The entries of deps are mutually independent: none is reachable from   *)
(* another entry (so none is listed twice).                                *)
MutuallyIndependent(requests, deps) ==
    \A i, j \in 1..Len(deps) : i # j => deps[i] \notin Reachable(requests, deps[j])

(* C19: a generated queue is the reverse of the depth-first pre-order      *)
(* trace with every name kept at its first occurrence in the reversed      *)
(* sequence only; when the dependencies of the root are mutually           *)
(* independent, a dependency declared later is queued before one declared  *)
(* earlier.                                                                *)
C19_QueueIsReversedPreOrder ==
    (QueueReturned /\ queue_result.result.kind = "Ok") =>
        LET requests == schema.requests
            queue == queue_result.result.queue
            deps == dependencies_of(requests[queue_result.name])
        IN  /\ queue = FirstOccurrences(Reversed(PreOrder(requests, queue_result.name)))
            /\ MutuallyIndependent(requests, deps) =>
                  \A i, j \in 1..Len(deps) :
                      i < j => Position(queue, deps[j]) < Position(queue, deps[i])

(* C19 witness: A -> [B, C], B -> [D]; the trace is A B D C, the queue     *)
(* C D B A: the later dependency C comes before B and its subtree.         *)
C19_Witness ==
    /\ QueueReturned
    /\ queue_result.name = "A"
    /\ DOMAIN schema.requests = RequestNames
    /\ dependencies_of(schema.requests["A"]) = <<"B", "C">>
    /\ dependencies_of(schema.requests["B"]) = <<"D">>
    /\ dependencies_of(schema.requests["C"]) = <<>>
    /\ dependencies_of(schema.requests["D"]) = <<>>
    /\ queue_result.result = [kind |-> "Ok", queue |-> <<"C", "D", "B", "A">>]

(* The root or a name reachable from it is not declared.                   *)
UndeclaredReachable ==
    ~(Reachable(schema.requests, queue_result.name) \subseteq DOMAIN schema.requests)

(* C24 as claimed: when the root or a name reachable from it is not        *)
(* declared, generate_call_queue fails with the does-not-exist error.      *)
C24_UndeclaredIsNotFound ==
    (QueueReturned /\ UndeclaredReachable) =>
        queue_result.result.kind = "RequestNotFound"

(* C24 as amended: when the root or a name reachable from it is not        *)
(* declared, generate_call_queue fails and returns no queue; the error is  *)
(* the does-not-exist error naming an undeclared reachable name, unless    *)
(* the traversal meets a circular dependency first, which is reported      *)
(* instead and is possible only when a reachable request lies on a cycle.  *)
C24_UndeclaredFailsNotFoundOrCircular ==
    (QueueReturned /\ UndeclaredReachable) =>
        LET requests == schema.requests
            R == Reachable(requests, queue_result.name)
            result == queue_result.result
        IN  /\ result.kind \in {"RequestNotFound", "CircularDependency"}
            /\ "queue" \notin DOMAIN result
            /\ result.kind = "RequestNotFound" =>
                  result.name \in R \ DOMAIN requests
            /\ result.kind = "CircularDependency" =>
                  \E x \in R : OnCycle(requests, x)

(* C24 witness: A -> [B], B -> [D] with D undeclared: the queue of A fails *)
(* with RequestNotFound for D.                                             *)
C24_Witness ==
    /\ QueueReturned
    /\ queue_result.name = "A"
    /\ UndeclaredName \notin DOMAIN schema.requests
    /\ dependencies_of(schema.requests["A"]) = <<"B">>
    /\ dependencies_of(schema.requests["B"]) = <<UndeclaredName>>
    /\ queue_result.result = [kind |-> "RequestNotFound", name |-> UndeclaredName]

SequenceReturned ==
    queue_result # NoResult /\ queue_result.op = "generate_sequence_queue"

(* C15: for a declared sequence whose members' queues can all be           *)
(* generated, generate_sequence_queue returns one queue per member, the    *)
(* i-th equal to generate_call_queue of the i-th member, nothing removed   *)
(* across members; it fails when the sequence is not declared or the       *)
(* queue of some member cannot be generated.                               *)
C15_SequenceIsQueuePerMember ==
    SequenceReturned =>
        LET result == queue_result.result
            declared == queue_result.name \in DOMAIN schema.calls
            members == schema.calls[queue_result.name]
            queue_of(i) == generate_call_queue(schema.requests, members[i])
        IN  IF declared /\ \A i \in 1..Len(members) : queue_of(i).kind = "Ok"
            THEN /\ result.kind = "Ok"
                 /\ Len(result.queues) = Len(members)
                 /\ \A i \in 1..Len(members) : result.queues[i] = queue_of(i).queue
            ELSE result.kind # "Ok"

(* C15 witness: the sequence [A, B] with A -> [C] and B -> [C]: C is in    *)
(* both queues.                                                            *)
C15_Witness ==
    /\ SequenceReturned
    /\ queue_result.name = "ab"
    /\ queue_result.result =
           [kind |-> "Ok", queues |-> << <<"C", "A">>, <<"C", "B">> >>]

----------------------------------------------------------------------------
(* Schema loader/merger (runner.rs:38-166, schema.rs:167-180).             *)

(* The files of the load specification, all in one directory, so that an   *)
(* import name and the path it resolves to (57-61) coincide.               *)
Paths == {"root", "b", "c"}
RootPath == "root"

(* What a file may declare: entries of env, requests and calls.            *)
DeclKeys == {<<"env", "e1">>, <<"env", "e2">>, <<"requests", "r1">>, <<"calls", "c1">>}

(* Total number of import entries, and of declared entries, in the files.  *)
MaxImports == 2
MaxDecls == 2

(* At most one file is out of the ordinary: it carries a project section,  *)
(* cannot be parsed, or does not exist.                                    *)
Conditions ==
    {<<"ok", RootPath>>}
        \cup {<<c, p>> : c \in {"project", "unparsable", "missing"}, p \in Paths}

DeclSets == {d \in SUBSET (Paths \X DeclKeys) : Cardinality(d) <= MaxDecls}

KeysOf(decls, path, collection) ==
    {k[2] : k \in {dk \in DeclKeys : dk[1] = collection /\ <<path, dk>> \in decls}}

(* The file at `path`: every entry's value names the file declaring it.    *)
FileAt(path, imports, decls, cond) ==
    [exists   |-> cond # <<"missing", path>>,
     parses   |-> cond # <<"unparsable", path>>,
     imports  |-> imports,
     env      |-> [k \in KeysOf(decls, path, "env") |->
                      EnvironmentVariable(Lit(path), EmptyMap)],
     requests |-> [k \in KeysOf(decls, path, "requests") |->
                      Request("GET", Lit("http://h/"), path, None, None, None, None, None)],
     calls    |-> [k \in KeysOf(decls, path, "calls") |-> <<path>>],
     project  |-> IF cond = <<"project", path>> THEN Some(path) ELSE None]

Err(error, file, other) ==
    [kind |-> "Err", error |-> error, file |-> file, other |-> other]

Ok(s) == [kind |-> "Ok", schema |-> s]

(* load_api_file (schema.rs:167-180): open, parse, record the filename.    *)
load_api_file(fs, path) ==
    IF ~fs[path].exists THEN Err("OpenFailed", path, path)
    ELSE IF ~fs[path].parses THEN Err("ParseFailed", path, path)
    ELSE Ok(Schema(path, fs[path].imports, fs[path].env, fs[path].requests,
                   fs[path].calls, fs[path].project))

(* Mutant: the calls of an imported schema are checked but never inserted. *)
merge_schema_without_calls(s, i_schema) ==
    IF DOMAIN i_schema.env \cap DOMAIN s.env # {}
    THEN Err("ConflictingVariableNames", s.filename, i_schema.filename)
    ELSE IF DOMAIN i_schema.requests \cap DOMAIN s.requests # {}
    THEN Err("ConflictingRequestNames", s.filename, i_schema.filename)
    ELSE IF DOMAIN i_schema.calls \cap DOMAIN s.calls # {}
    THEN Err("ConflictingSequenceNames", s.filename, i_schema.filename)
    ELSE Ok([s EXCEPT !.env = i_schema.env @@ s.env,
                      !.requests = i_schema.requests @@ s.requests])

(* One imported schema merged into the accumulating one (73-116): env,     *)
(* then requests, then calls; a key already present is an error naming     *)
(* schema.filename and i_schema.filename.                                  *)
merge_schema(s, i_schema) ==
    IF DOMAIN i_schema.env \cap DOMAIN s.env # {}
    THEN Err("ConflictingVariableNames", s.filename, i_schema.filename)
    ELSE IF DOMAIN i_schema.requests \cap DOMAIN s.requests # {}
    THEN Err("ConflictingRequestNames", s.filename, i_schema.filename)
    ELSE IF DOMAIN i_schema.calls \cap DOMAIN s.calls # {}
    THEN Err("ConflictingSequenceNames", s.filename, i_schema.filename)
    ELSE Ok([s EXCEPT !.env = i_schema.env @@ s.env,
                      !.requests = i_schema.requests @@ s.requests,
                      !.calls = i_schema.calls @@ s.calls])

(* The loop over imported_schemas (72-117), stopping at the first error.   *)
RECURSIVE merge_imported(_, _, _)
merge_imported(s, imported_schemas, i) ==
    IF i > Len(imported_schemas) THEN Ok(s)
    ELSE LET merged == merge_schema(s, imported_schemas[i])
         IN  IF merged.kind # "Ok" THEN merged
             ELSE merge_imported(merged.schema, imported_schemas, i + 1)

RECURSIVE recursively_import(_, _, _, _)
RECURSIVE import_schemas(_, _, _, _, _)

(* Mutant: the filter_map without its p.exists() test, every import entry  *)
(* being loaded.                                                           *)
import_schemas_without_exists_test(fs, imports, i, calls_in_progress, imported_schemas) ==
    IF i > Len(imports) THEN [kind |-> "Ok", schemas |-> imported_schemas]
    ELSE LET r == recursively_import(fs, imports[i], FALSE, calls_in_progress)
         IN  IF r.kind = "Ok"
             THEN import_schemas(fs, imports, i + 1, calls_in_progress,
                                 Append(imported_schemas, r.schema))
             ELSE IF r.kind = "Err"
             THEN [kind |-> "Panic", error |-> r.error, file |-> r.file,
                   other |-> r.other]
             ELSE r

(* The filter_map over schema.imports (53-70): a path that does not exist  *)
(* is skipped; any other import is loaded recursively and its Result       *)
(* unwrapped, which panics on Err.                                         *)
import_schemas(fs, imports, i, calls_in_progress, imported_schemas) ==
    IF i > Len(imports) THEN [kind |-> "Ok", schemas |-> imported_schemas]
    ELSE IF ~fs[imports[i]].exists
    THEN import_schemas(fs, imports, i + 1, calls_in_progress, imported_schemas)
    ELSE LET r == recursively_import(fs, imports[i], FALSE, calls_in_progress)
         IN  IF r.kind = "Ok"
             THEN import_schemas(fs, imports, i + 1, calls_in_progress,
                                 Append(imported_schemas, r.schema))
             ELSE IF r.kind = "Err"
             THEN [kind |-> "Panic", error |-> r.error, file |-> r.file,
                   other |-> r.other]
             ELSE r

(* recursively_import (38-120). calls_in_progress holds the (path,         *)
(* is_root) pairs of the calls on the stack: the code keeps no such set,   *)
(* and a call that recurs with the arguments of one in progress recurs     *)
(* without bound (kind "Unbounded": the stack overflows).                  *)
recursively_import(fs, rootpath, is_root, calls_in_progress) ==
    IF <<rootpath, is_root>> \in calls_in_progress THEN [kind |-> "Unbounded"]
    ELSE LET loaded == load_api_file(fs, rootpath)
         IN  IF loaded.kind # "Ok" THEN loaded
             ELSE IF ~is_root /\ loaded.schema.project # None
             THEN Err("MisplacedProjectDefinition", rootpath, rootpath)
             ELSE LET imported == import_schemas(fs, loaded.schema.imports, 1,
                                      calls_in_progress \cup {<<rootpath, is_root>>},
                                      <<>>)
                  IN  IF imported.kind # "Ok" THEN imported
                      ELSE merge_imported(loaded.schema, imported.schemas, 1)

(* String::to_lowercase on the environment names used here (145).          *)
to_lowercase(str) == IF str = "Default" THEN "default" ELSE str

Environments == {None, Some("staging"), Some("Default")}

(* Runner::new (137-166).                                                  *)
new(fs, filename, env, as_project) ==
    IF env # None /\ to_lowercase(env[1]) = "default"
    THEN [kind |-> "Panic", error |-> "assert_ne", file |-> filename,
          other |-> filename, imported |-> NoResult]
    ELSE LET imported == recursively_import(fs, filename, TRUE, {})
         IN  IF imported.kind = "Ok" /\ as_project /\ imported.schema.project = None
             THEN [kind |-> "Err", error |-> "MissingProjectDefinition",
                   file |-> filename, other |-> filename, imported |-> imported]
             ELSE [imported EXCEPT !.kind = imported.kind] @@ [imported |-> imported]

NoSchema == Schema("", <<>>, EmptyMap, EmptyMap, EmptyMap, None)

(* The paths named, directly or transitively, by the imports of the root.  *)
RECURSIVE ImportClosure(_, _)
ImportClosure(imports, S) ==
    LET T == S \cup UNION {Range(imports[p]) : p \in S}
    IN  IF T = S THEN S ELSE ImportClosure(imports, T)

(* The file trees of the load specification. A file the root's imports     *)
(* never name is never opened: it is left empty and ordinary.              *)
InitLoad ==
    /\ \E ir \in SeqsUpTo(Paths, MaxImports) :
       \E ib \in SeqsUpTo(Paths, MaxImports - Len(ir)) :
       \E ic \in SeqsUpTo(Paths, MaxImports - Len(ir) - Len(ib)) :
           LET imports == [root |-> ir, b |-> ib, c |-> ic]
               named == ImportClosure(imports, {RootPath})
           IN  /\ \A p \in Paths \ named : imports[p] = <<>>
               /\ \E decls \in {d \in DeclSets : \A x \in d : x[1] \in named} :
                  \E cond \in {k \in Conditions : k[2] \in named} :
                      files = [p \in Paths |-> FileAt(p, imports[p], decls, cond)]
    /\ schema = NoSchema
    /\ environment = None
    /\ overrides = EmptyMap
    /\ script_engine = "None"
    /\ pc = "ready"
    /\ call = NoResult
    /\ new_result = NoResult
    /\ queue_result = NoResult

(* Runner::new(RootPath, env, engine, as_project): on Ok the Runner holds  *)
(* the merged schema, the environment, empty overrides and the engine.     *)
New(env, engine, as_project) ==
    LET result == new(files, RootPath, env, as_project)
    IN  /\ pc = "ready"
        /\ pc' = "returned"
        /\ new_result' = [result EXCEPT !.kind = result.kind]
                            @@ [as_project |-> as_project, env |-> env]
        /\ IF result.kind = "Ok"
           THEN /\ schema' = result.schema
                /\ environment' = env
                /\ overrides' = EmptyMap
                /\ script_engine' = engine
           ELSE UNCHANGED <<schema, environment, overrides, script_engine>>
        /\ UNCHANGED <<files, call, queue_result>>

NextLoad ==
    \E env \in Environments, as_project \in BOOLEAN : New(env, "Rhai", as_project)

SpecLoad == InitLoad /\ [][NextLoad]_vars

(* The shared-import specification: four ordinary files, each importing    *)
(* only files later in SharedPaths (so no import cycle), each declaring    *)
(* at most one entry.                                                      *)
SharedPaths == <<"root", "b", "c", "d">>

(* Number of import entries of one file.                                   *)
MaxFanout == 2

SharedDeclKeys == {<<"env", "e1">>, <<"requests", "r1">>}

(* The paths after position i of SharedPaths.                              *)
LaterPaths(i) == {SharedPaths[j] : j \in (i + 1)..Len(SharedPaths)}

InitShared ==
    /\ \E ir \in SeqsUpTo(LaterPaths(1), MaxFanout) :
       \E ib \in SeqsUpTo(LaterPaths(2), MaxFanout) :
       \E ic \in SeqsUpTo(LaterPaths(3), MaxFanout) :
           LET imports == [root |-> ir, b |-> ib, c |-> ic, d |-> <<>>]
               named == ImportClosure(imports, {RootPath})
           IN  /\ \A p \in Range(SharedPaths) \ named : imports[p] = <<>>
               /\ \E declaring \in SUBSET named :
                  \E key \in [declaring -> SharedDeclKeys] :
                      files = [p \in Range(SharedPaths) |->
                                  FileAt(p, imports[p],
                                         {<<q, key[q]>> : q \in declaring},
                                         <<"ok", RootPath>>)]
    /\ schema = NoSchema
    /\ environment = None
    /\ overrides = EmptyMap
    /\ script_engine = "None"
    /\ pc = "ready"
    /\ call = NoResult
    /\ new_result = NoResult
    /\ queue_result = NoResult

NextShared == New(None, "Rhai", FALSE)

SpecShared == InitShared /\ [][NextShared]_vars

----------------------------------------------------------------------------
(* The merge tree of a set of files, stated independently of the loader:   *)
(* what the claims about loading refer to.                                 *)

Collections == {"env", "requests", "calls"}

(* The import entries of file p that name an existing file.                *)
LiveImports(p) == SelectSeq(files[p].imports, LAMBDA q : files[q].exists)

RECURSIVE LoadClosure(_)
LoadClosure(S) ==
    LET T == S \cup UNION {Range(LiveImports(p)) : p \in S}
    IN  IF T = S THEN S ELSE LoadClosure(T)

(* The files a load of the root opens.                                     *)
LoadedFiles == IF files[RootPath].exists THEN LoadClosure({RootPath}) ELSE {}

(* The sum of f[x] over the x in S.                                        *)
RECURSIVE SumOver(_, _)
SumOver(S, f) ==
    IF S = {} THEN 0
    ELSE LET x == CHOOSE y \in S : TRUE IN f[x] + SumOver(S \ {x}, f)

ImportCount == [p \in Paths |-> Len(LiveImports(p))]

(* The opened files form a tree of parsable files, only the root carrying  *)
(* a project section: every file but the root is imported exactly once.    *)
OrdinaryTree ==
    /\ LoadedFiles # {}
    /\ \A p \in LoadedFiles : files[p].parses
    /\ \A p \in LoadedFiles \ {RootPath} : files[p].project = None
    /\ \A p \in LoadedFiles : RootPath \notin Range(LiveImports(p))
    /\ SumOver(LoadedFiles, ImportCount) = Cardinality(LoadedFiles) - 1

(* Two opened files that declare the same key of one collection.           *)
Conflicts ==
    {x \in LoadedFiles \X LoadedFiles \X Collections :
        /\ x[1] # x[2]
        /\ DOMAIN files[x[1]][x[3]] \cap DOMAIN files[x[2]][x[3]] # {}}

ConflictError(collection) ==
    CASE collection = "env" -> "ConflictingVariableNames"
      [] collection = "requests" -> "ConflictingRequestNames"
      [] collection = "calls" -> "ConflictingSequenceNames"

Loaded == new_result # NoResult /\ new_result.imported # NoResult

(* C6 as claimed: a failure while loading (a misplaced project section, a  *)
(* name conflict, an unparsable file, in the root or in any import) makes  *)
(* Runner::new return an Err; it never aborts.                             *)
C6_LoadFailureIsReturned ==
    (Loaded /\ new_result.kind \notin {"Ok", "Unbounded"}) =>
        new_result.kind = "Err"

(* C9 as claimed: in a tree of ordinary files, whenever two files declare  *)
(* the same env, request or call name, loading fails with a name conflict  *)
(* error that names two files that both declared the key. (The loads that  *)
(* panic on the conflict, see C6, are left aside here.)                    *)
C9_ConflictNamesBothFiles ==
    (Loaded /\ OrdinaryTree /\ Conflicts # {} /\ new_result.kind # "Panic") =>
        /\ new_result.imported.kind = "Err"
        /\ \E x \in Conflicts :
              /\ new_result.imported.error = ConflictError(x[3])
              /\ new_result.imported.file = x[1]
              /\ new_result.imported.other = x[2]

(* C10: in a tree of ordinary files whose env, requests and calls keys     *)
(* are pairwise disjoint, loading succeeds and each merged map is the      *)
(* union of the files' maps, values unchanged, its size the sum of theirs. *)
C10_DisjointMergeIsUnion ==
    (Loaded /\ OrdinaryTree /\ Conflicts = {}) =>
        /\ new_result.imported.kind = "Ok"
        /\ \A col \in Collections :
              LET merged == new_result.imported.schema[col]
                  Size == [p \in Paths |-> Cardinality(DOMAIN files[p][col])]
              IN  /\ DOMAIN merged = UNION {DOMAIN files[p][col] : p \in LoadedFiles}
                  /\ \A p \in LoadedFiles : \A k \in DOMAIN files[p][col] :
                        merged[k] = files[p][col][k]
                  /\ Cardinality(DOMAIN merged) = SumOver(LoadedFiles, Size)

(* C10 witness: root imports b, b imports c; root declares env e1 and c    *)
(* declares env e2; the merged env holds both.                             *)
C10_Witness ==
    /\ Loaded
    /\ OrdinaryTree /\ Conflicts = {}
    /\ files["root"].imports = <<"b">> /\ files["b"].imports = <<"c">>
    /\ DOMAIN files["root"].env = {"e1"} /\ DOMAIN files["c"].env = {"e2"}
    /\ new_result.imported.kind = "Ok"
    /\ DOMAIN new_result.imported.schema.env = {"e1", "e2"}
    /\ new_result.imported.schema.env["e2"].default = Lit("c")

(* The same files with every import entry that names a missing file        *)
(* removed.                                                                *)
WithoutMissingImports(fs) ==
    [p \in DOMAIN fs |->
        [fs[p] EXCEPT !.imports = SelectSeq(@, LAMBDA q : fs[q].exists)]]

(* What a load produced, the root's own imports list left aside.           *)
MergedContent(result) ==
    IF result.kind = "Ok" THEN [result EXCEPT !.schema.imports = <<>>] ELSE result

(* Some opened file has an import entry naming a missing file.             *)
SomeImportMissing ==
    \E p \in LoadedFiles : \E q \in Range(files[p].imports) : ~files[q].exists

(* C11: an import entry whose path does not exist is skipped: the load     *)
(* ends as the load of the same files with that entry removed ends, with   *)
(* the same merged schema or the same failure.                             *)
C11_MissingImportIsSkipped ==
    (Loaded /\ SomeImportMissing) =>
        MergedContent(new_result.imported) =
            MergedContent(recursively_import(WithoutMissingImports(files),
                                             RootPath, TRUE, {}))

(* C11 witness: root imports b, which is missing, then c, which declares   *)
(* e1; the load succeeds and the merged env is c's.                        *)
C11_Witness ==
    /\ Loaded
    /\ files["root"].imports = <<"b", "c">>
    /\ ~files["b"].exists
    /\ DOMAIN files["c"].env = {"e1"}
    /\ new_result.imported.kind = "Ok"
    /\ DOMAIN new_result.imported.schema.env = {"e1"}

(* Some opened file is reachable from itself through import entries.       *)
ImportsFormCycle ==
    \E p \in LoadedFiles : p \in LoadClosure(Range(LiveImports(p)))

(* C12 as claimed: loading parsable files without project sections whose   *)
(* imports form a cycle terminates and fails with an ImportCycle error.    *)
C12_ImportCycleIsReported ==
    (/\ Loaded
     /\ ImportsFormCycle
     /\ \A p \in LoadedFiles : files[p].parses /\ files[p].project = None) =>
        /\ new_result.kind = "Err"
        /\ new_result.error = "ImportCycle"

(* The number of entries of q's imports that name p.                       *)
Entries(q, p) ==
    Cardinality({i \in 1..Len(files[q].imports) : files[q].imports[i] = p})

(* The number of import paths (sequences of files, each importing the      *)
(* next) from the root to p, in files without import cycles.               *)
RECURSIVE ImportPaths(_)
ImportPaths(p) ==
    IF p = RootPath THEN 1
    ELSE SumOver(DOMAIN files,
                 [q \in DOMAIN files |->
                     IF Entries(q, p) = 0 THEN 0 ELSE ImportPaths(q)])

Declares(p) == \E col \in Collections : DOMAIN files[p][col] # {}

(* A file that declares an entry is reachable from the root through two    *)
(* import paths.                                                           *)
SharedImportDeclares ==
    \E p \in DOMAIN files : Declares(p) /\ ImportPaths(p) >= 2

ConflictErrors == {ConflictError(col) : col \in Collections}

(* C21 as claimed: when a file that declares an entry is reachable from    *)
(* the root through two import paths, loading fails with a name-conflict   *)
(* error returned to the caller.                                           *)
C21_SharedImportIsConflictError ==
    (Loaded /\ SharedImportDeclares) =>
        /\ new_result.kind = "Err"
        /\ new_result.error \in ConflictErrors

----------------------------------------------------------------------------
(* Claims about one call_request, under Spec.                              *)

CallStarted == "steps" \in DOMAIN call
LastStep == call.steps[Len(call.steps)]
StepOrder ==
    ("lookup" :> 1) @@ ("pre_request" :> 2) @@ ("build" :> 3)
        @@ ("execute" :> 4) @@ ("post_request" :> 5)
HasStep(step) == \E i \in DOMAIN call.steps : call.steps[i].step = step
CalledRequest == schema.requests[call.name]
UnsupportedLanguages == {"javascript", "lua"}

(* The script of the hook a logged step dispatched.                        *)
HookScript(step) == hook_of(CalledRequest, step)[1]
IsUnsupportedHookStep(i) ==
    /\ call.steps[i].step \in {"pre_request", "post_request"}
    /\ HookScript(call.steps[i].step).language \in UnsupportedLanguages

(* C2: once a hook has written variable v into overrides, the environment  *)
(* resolved by a later request build gives v the overridden value.         *)
C2_BuildSeesOverrides ==
    (CallStarted /\ call.env # None) =>
        \A i \in DOMAIN call.steps :
            call.steps[i].step = "build" =>
                \A v \in DOMAIN call.steps[i].overrides \cap DOMAIN schema.env :
                    call.env[1][v] = call.steps[i].overrides[v]

(* C3: the steps of a call run in the order lookup, pre-request hook (if   *)
(* declared), build, execute, post-request hook (if declared); none is     *)
(* skipped; only the last step run can have failed, and then the call has  *)
(* ended without a response, so no build or transport call follows a       *)
(* failed pre-hook, no transport call a failed build, no post-hook a       *)
(* failed transport call.                                                  *)
C3_StepsInOrderFailFast ==
    CallStarted =>
        /\ call.steps[1].step = "lookup"
        /\ \A i \in 1..(Len(call.steps) - 1) :
              /\ StepOrder[call.steps[i].step] < StepOrder[call.steps[i + 1].step]
              /\ call.steps[i].ok
        /\ HasStep("pre_request") =>
              hook_of(CalledRequest, "pre_request") # None
        /\ HasStep("post_request") =>
              hook_of(CalledRequest, "post_request") # None /\ HasStep("execute")
        /\ HasStep("build") =>
              (hook_of(CalledRequest, "pre_request") # None => HasStep("pre_request"))
        /\ HasStep("execute") => HasStep("build")
        /\ call.transport_calls = IF HasStep("execute") THEN 1 ELSE 0
        /\ ~LastStep.ok =>
              /\ pc \in {"idle", "panicked"}
              /\ call.outcome.kind \in {"Err", "Panic"}
        /\ call.outcome.kind = "Ok" =>
              /\ pc = "idle"
              /\ LastStep.ok
              /\ HasStep("execute")
              /\ hook_of(CalledRequest, "post_request") # None => HasStep("post_request")

(* A call whose pre-request hook succeeded and whose build then failed:    *)
(* it has ended with no transport call.                                    *)
C3_Witness ==
    /\ CallStarted
    /\ Len(call.steps) = 3
    /\ call.steps[2].step = "pre_request" /\ call.steps[2].ok
    /\ call.steps[3].step = "build" /\ ~call.steps[3].ok
    /\ call.outcome = Result("Err", "MalformedURL")
    /\ call.transport_calls = 0
    /\ pc = "idle"

(* C7: a call that dispatched a javascript or lua hook ends with an        *)
(* UnsupportedScriptLanguage error returned to the caller.                 *)
C7_UnsupportedLanguageIsReturned ==
    CallStarted =>
        \A i \in DOMAIN call.steps :
            IsUnsupportedHookStep(i) =>
                /\ pc = "idle"
                /\ call.outcome = Result("Err", "UnsupportedScriptLanguage")

(* C8: dispatching a javascript or lua hook leaves overrides as it was     *)
(* before the dispatch, and after such a pre-request hook no transport     *)
(* call is made.                                                           *)
C8_UnsupportedHookHasNoEffect ==
    CallStarted =>
        \A i \in DOMAIN call.steps :
            IsUnsupportedHookStep(i) =>
                /\ call.steps[i].overrides = call.steps[i - 1].overrides
                /\ overrides = call.steps[i - 1].overrides
                /\ call.steps[i].step = "pre_request" =>
                      /\ call.transport_calls = 0
                      /\ i = Len(call.steps)

(* A javascript pre-request hook dispatched on a Runner whose overrides    *)
(* an earlier call's Rhai hook had written.                                *)
C8_Witness ==
    /\ CallStarted
    /\ call.name = "r"
    /\ LastStep.step = "pre_request"
    /\ HookScript("pre_request").language = "javascript"
    /\ "host" \in DOMAIN overrides
    /\ call.transport_calls = 0

----------------------------------------------------------------------------
(* Claims about environment resolution, under Spec.                        *)

(* The call in progress has run its build step.                            *)
BuildRan == CallStarted /\ HasStep("build")

(* The value the schema gives variable v under the selected environment:   *)
(* the override under that name when there is one, the default otherwise.  *)
SelectedValue(v) ==
    IF /\ environment # None
       /\ environment[1] \in DOMAIN schema.env[v].overrides
    THEN schema.env[v].overrides[environment[1]]
    ELSE schema.env[v].default

(* Every reference in a selected value names a declared variable whose own *)
(* selected value is literal.                                              *)
ReferencesDeclared ==
    \A v \in DOMAIN schema.env :
        SelectedValue(v).ref =>
            /\ SelectedValue(v).text \in DOMAIN schema.env
            /\ ~SelectedValue(SelectedValue(v).text).ref

(* The text of v with its reference, if any, substituted.                  *)
Substituted(v) ==
    IF SelectedValue(v).ref THEN SelectedValue(SelectedValue(v).text).text
    ELSE SelectedValue(v).text

(* C13 as claimed: when every reference names a declared variable, every   *)
(* resolution of the schema gives the same map, in which a variable that   *)
(* references another holds the value with the reference substituted.      *)
C13_ReferencesResolveInOrder ==
    (BuildRan /\ ReferencesDeclared) =>
        /\ call.env # None
        /\ \A v \in DOMAIN schema.env : call.env[1][v] = Substituted(v)

(* C14: the map build_env returns has exactly one entry per declared       *)
(* variable, resolved from the override under the selected environment     *)
(* when the variable has one and from its default in every other case.     *)
C14_OverrideElseDefault ==
    (BuildRan /\ call.env # None) =>
        /\ DOMAIN call.env[1] = DOMAIN schema.env
        /\ \A v \in DOMAIN schema.env :
              call.env[1][v] =
                  IF SelectedValue(v).ref THEN call.env[1][SelectedValue(v).text]
                  ELSE SelectedValue(v).text

(* C14 witness: with environment staging, host takes its staging override  *)
(* and link, which has no override, its default (a reference to host).     *)
C14_Witness ==
    /\ BuildRan
    /\ environment = Some("staging")
    /\ DOMAIN schema.env = {"host", "link"}
    /\ call.env = Some(("host" :> "http://s/") @@ ("link" :> "http://s/"))

----------------------------------------------------------------------------
(* Claims about the Runner's state across operations, under Spec.          *)

(* C16: no step of call_request (lookup, hooks, build with its environment *)
(* resolution, transport) and no generate_call_queue or                    *)
(* generate_sequence_queue changes the schema or the selected environment, *)
(* and overrides changes only in the step that runs a Rhai hook.           *)
C16_OnlyRhaiHooksChangeState ==
    [][/\ schema' = schema
       /\ environment' = environment
       /\ overrides' # overrides =>
             /\ pc \in {"pre_request", "post_request"}
             /\ HookScript(pc).language = "rhai"
             /\ script_engine = "Rhai"]_vars

(* C16 witness: a call whose Rhai pre-request hook has just rewritten      *)
(* overrides, after a call queue was generated on the same Runner.         *)
C16_Witness ==
    /\ CallStarted
    /\ LastStep.step = "pre_request"
    /\ HookScript("pre_request").language = "rhai"
    /\ LastStep.overrides # call.steps[1].overrides
    /\ overrides = LastStep.overrides
    /\ queue_result # NoResult

(* The steps of the call in progress that invoked the transport.           *)
ExecuteSteps == {i \in DOMAIN call.steps : call.steps[i].step = "execute"}

(* C17: a call invokes the transport at most once, whatever the request's  *)
(* delay, timeout and retries; a transport failure ends the call with      *)
(* TransportError and is not retried.                                      *)
C17_TransportAtMostOnce ==
    CallStarted =>
        /\ call.transport_calls <= 1
        /\ Cardinality(ExecuteSteps) = call.transport_calls
        /\ \A i \in ExecuteSteps :
              ~call.steps[i].ok =>
                  /\ i = Len(call.steps)
                  /\ pc = "idle"
                  /\ call.outcome = Result("Err", "TransportError")

(* C17 witness: the transport call of request login, whose config asks for *)
(* three retries, failed; it was made once.                                *)
C17_Witness ==
    /\ CallStarted
    /\ call.name = "login"
    /\ CalledRequest.config[1].retries = 3
    /\ CalledRequest.config[1].timeout # None
    /\ CalledRequest.config[1].delay # None
    /\ LastStep.step = "execute" /\ ~LastStep.ok
    /\ call.transport_calls = 1
    /\ pc = "idle"

(* C18: a call for a name that is not a key of schema.requests fails with  *)
(* RequestNotFound at the lookup: no hook, build or transport call is      *)
(* made, and overrides is as it was when the call started.                 *)
C18_UndeclaredNameFailsAtLookup ==
    (CallStarted /\ call.name \notin DOMAIN schema.requests) =>
        /\ call.steps = <<Step("lookup", FALSE, overrides)>>
        /\ call.outcome = Result("Err", "RequestNotFound")
        /\ call.transport_calls = 0
        /\ call.env = None
        /\ pc = "idle"

(* C18 witness: the undeclared name is called on a Runner whose overrides  *)
(* an earlier call had written.                                            *)
C18_Witness ==
    /\ CallStarted
    /\ call.name = "missing"
    /\ call.outcome = Result("Err", "RequestNotFound")
    /\ "host" \in DOMAIN overrides

----------------------------------------------------------------------------
(* Claims about build_request, under SpecBuild.                            *)

(* The build step of the call has run and its environment was resolved.    *)
BuildReturned == CallStarted /\ call.built # NoResult /\ call.built.env # None
ResolvedEnv == call.built.env[1]

(* A template that strict interpolation accepts, and the text it gives.    *)
Interpolates(t) == ~t.ref \/ t.text \in DOMAIN ResolvedEnv
TextOf(t) == IF t.ref THEN ResolvedEnv[t.text] ELSE t.text
AllInterpolate(map) ==
    map = None \/ \A k \in DOMAIN map[1] : Interpolates(map[1][k])

(* Whether a multipart part fails, and whether it gets as far as reading   *)
(* its file.                                                               *)
PartFails(part) ==
    IF part.kind = "field" THEN ~Interpolates(part.value)
    ELSE \/ ~Interpolates(part.path)
         \/ TextOf(part.path) \notin ReadableFiles
         \/ /\ part.mime_type # None
            /\ \/ ~Interpolates(part.mime_type[1])
               \/ TextOf(part.mime_type[1]) \notin ValidMimeTypes
PartReads(part) == part.kind = "file" /\ Interpolates(part.path)

PartsOf(body) ==
    IF body # None /\ body[1].type = "multipart" THEN body[1].parts ELSE <<>>

(* The parts up to and including the first that fails (all, if none does). *)
PartsProcessed(parts) ==
    LET failing == {i \in 1..Len(parts) : PartFails(parts[i])}
    IN  IF failing = {} THEN parts
        ELSE SubSeq(parts, 1, CHOOSE i \in failing : \A j \in failing : i <= j)

BodyFails(body) ==
    /\ body # None
    /\ CASE body[1].type = "json" -> ~Interpolates(body[1].content)
         [] body[1].type = "graphql" ->
                \/ ~Interpolates(body[1].query)
                \/ body[1].variables # None /\ ~Interpolates(body[1].variables[1])
         [] body[1].type \in {"xml", "text", "form-urlencoded"} ->
                ~Interpolates(body[1].content)
         [] body[1].type = "multipart" ->
                \E i \in 1..Len(body[1].parts) : PartFails(body[1].parts[i])

BodyError(body) ==
    IF body[1].type # "multipart" THEN "InterpolationError"
    ELSE LET parts == PartsProcessed(body[1].parts)
             part == parts[Len(parts)]
         IN  IF part.kind = "field" \/ ~Interpolates(part.path)
             THEN "InterpolationError"
             ELSE IF TextOf(part.path) \notin ReadableFiles THEN "FileReadError"
             ELSE IF ~Interpolates(part.mime_type[1]) THEN "InterpolationError"
             ELSE "InvalidMimeType"

(* The steps of build_request in order, with whether each would fail on    *)
(* its own and the error it reports.                                       *)
BuildSteps ==
    <<"url_interpolation", "url_parse", "method", "headers", "query", "body",
      "assembly">>

StepFails(request) ==
    [url_interpolation |-> ~Interpolates(request.url),
     url_parse |-> Interpolates(request.url) /\ TextOf(request.url) \notin ValidUrls,
     method |-> request.method \in InvalidMethods,
     headers |-> ~AllInterpolate(request.headers),
     query |-> ~AllInterpolate(request.query),
     body |-> BodyFails(request.body),
     assembly |-> /\ request.headers # None
                  /\ \E k \in DOMAIN request.headers[1] :
                        /\ Interpolates(request.headers[1][k])
                        /\ TextOf(request.headers[1][k]) \in InvalidHeaderValues]

StepError(request) ==
    [url_interpolation |-> "InterpolationError",
     url_parse |-> "MalformedURL",
     method |-> "InvalidMethod",
     headers |-> "InterpolationError",
     query |-> "InterpolationError",
     body |-> IF BodyFails(request.body) THEN BodyError(request.body) ELSE "",
     assembly |-> "RequestAssemblyError"]

FailingSteps(request) ==
    {i \in 1..Len(BuildSteps) : StepFails(request)[BuildSteps[i]]}

(* The files read when the build stops at step number `stop`.              *)
ExpectedReads(request, stop) ==
    IF stop < 6 THEN <<>>
    ELSE LET read == SelectSeq(PartsProcessed(PartsOf(request.body)), PartReads)
         IN  [i \in 1..Len(read) |-> TextOf(read[i].path)]

(* C20: build_request returns the error of the earliest failing step in    *)
(* the order url interpolation, url parse, method parse, headers, query,   *)
(* body (multipart parts in declared order), final assembly, and succeeds  *)
(* when no step fails; the files it reads are those of the multipart       *)
(* parts up to the first failing part, none when an earlier step fails.    *)
C20_BuildFailsAtEarliestStep ==
    BuildReturned =>
        LET request == CalledRequest
            failing == FailingSteps(request)
            first == CHOOSE i \in failing : \A j \in failing : i <= j
        IN  IF failing = {}
            THEN /\ call.built.kind = "Ok"
                 /\ call.built.reads = ExpectedReads(request, Len(BuildSteps))
            ELSE /\ call.built.kind = "Err"
                 /\ call.built.step = BuildSteps[first]
                 /\ call.built.error = StepError(request)[BuildSteps[first]]
                 /\ call.built.reads = ExpectedReads(request, first)
                 /\ call.outcome = Result("Err", call.built.error)
                 /\ pc = "idle"

(* C20 witness: a request whose header and query do not interpolate and    *)
(* whose multipart body has an unreadable file fails at the headers; a     *)
(* file was not read.                                                      *)
C20_Witness ==
    /\ BuildReturned
    /\ FailingSteps(CalledRequest) = {4, 5, 6}
    /\ PartsOf(CalledRequest.body) =
           <<File("u", Lit("upload.bin"), None), File("u", Lit("absent.bin"), None)>>
    /\ call.built.step = "headers"
    /\ call.built.reads = <<>>

----------------------------------------------------------------------------
(* Claims about failing hooks and failed calls, under Spec.                *)

(* The error run_rhai_script returns for a failing script: the engine is   *)
(* missing, or the script fails in the engine.                             *)
RhaiError ==
    IF script_engine = "Rhai" THEN "ScriptExecutionError"
    ELSE "RhaiEngineNotAvailable"

(* C22: when the post-request hook of a request returns an error, the call *)
(* returns that error and no response, the transport call having been made *)
(* exactly once and having succeeded.                                      *)
C22_PostHookErrorIsReturned ==
    (/\ CallStarted
     /\ LastStep.step = "post_request"
     /\ ~LastStep.ok
     /\ HookScript("post_request").language = "rhai") =>
        /\ call.outcome = Result("Err", RhaiError)
        /\ pc = "idle"
        /\ call.transport_calls = 1
        /\ Cardinality(ExecuteSteps) = 1
        /\ \A i \in ExecuteSteps : call.steps[i].ok /\ i = Len(call.steps) - 1

(* C22 witness: the Rhai post-request hook failed in the engine after the  *)
(* one transport call.                                                     *)
C22_Witness ==
    /\ CallStarted
    /\ LastStep.step = "post_request" /\ ~LastStep.ok
    /\ call.outcome = Result("Err", "ScriptExecutionError")
    /\ call.transport_calls = 1
    /\ pc = "idle"

(* The call's pre-request hook succeeded and a later step failed.          *)
FailedAfterPreHook ==
    /\ CallStarted
    /\ Len(call.steps) > 2
    /\ call.steps[2].step = "pre_request" /\ call.steps[2].ok
    /\ ~LastStep.ok

(* C23: a call that fails after its pre-request hook succeeded leaves      *)
(* overrides as the last hook that ran left it (as the pre-request hook    *)
(* left it, when the build or the transport call failed): nothing is       *)
(* rolled back; and a call starts with overrides as it was before the      *)
(* call was made.                                                          *)
C23_FailedCallKeepsOverrides ==
    /\ [](FailedAfterPreHook =>
             /\ overrides = LastStep.overrides
             /\ LastStep.step \in {"build", "execute"} =>
                   overrides = call.steps[2].overrides)
    /\ [][(pc = "idle" /\ call' # call) =>
             /\ overrides' = overrides
             /\ call'.steps[1].overrides = overrides]_vars

(* C23 witness: on a Runner with empty overrides the pre-request hook      *)
(* wrote host, then the build failed; host is still in overrides.          *)
C23_Witness ==
    /\ FailedAfterPreHook
    /\ call.steps[1].overrides = EmptyMap
    /\ "host" \in DOMAIN call.steps[2].overrides
    /\ LastStep.step = "build"
    /\ pc = "idle"
    /\ "host" \in DOMAIN overrides

============================================================================
